---------------------------- MODULE Spec2Model ----------------------------
(***************************************************************************)
(* A model of git-sanity-checker (git-sanity-checker.go).                  *)
(*                                                                         *)
(* Strings are sequences of byte values (Go strings are byte sequences);   *)
(* every character the code compares against is named below.  A rule's     *)
(* returned message is a sequence of message records: the empty sequence   *)
(* is Go's "" and each record is one "path:line: err" piece.               *)
(***************************************************************************)
EXTENDS Integers, Sequences, FiniteSets, TLC

VARIABLES
    pc,            \* position of main / runRulesOnFiles
    configLines,   \* the lines of git-sanity-checker.cfg (readFileLines)
    candidates,    \* what getListOfFiles will return
    repo,          \* what git reports of the working tree (repository mode)
    osArgs,        \* os.Args[1:] (explicit mode)
    files2,        \* the result list getListOfFilesFromArguments builds
    rules,         \* []rule loaded from the config file
    files,         \* []string handed to runRulesOnFiles
    fi,            \* index of the outer loop (1-based position in files)
    ri,            \* index of the inner loop (1-based position in rules)
    filePath,      \* canonical path of the current file
    fileExtension, \* filepath.Ext of the current file
    isBinary,      \* classification of the current file
    fileLoaded,    \* lazy-load flag of the current file
    fileAsString,  \* content of the current file once loaded
    fileAsLines,   \* lines of the current file once loaded
    msg,           \* the message returned by the last checkFunc call
    console,       \* what fmt.Println has printed, in order
    exitCode,      \* -1 while running, 0 normal completion, 1 fatal
    calls,         \* history: every checkFunc invocation, in order
    reads          \* history: every readFileString call, in order

vars == <<pc, configLines, candidates, repo, osArgs, files2,
          rules, files, fi, ri, filePath,
          fileExtension, isBinary, fileLoaded, fileAsString, fileAsLines,
          msg, console, exitCode, calls, reads>>

---------------------------------------------------------------------------
(* Bounds of the model. *)

MaxConfigLines == 2
MaxFiles == 2

---------------------------------------------------------------------------
(* Characters and string literals of the source. *)

chTab == 9
chLF == 10
chCR == 13
chSpace == 32
chHash == 35
chParen == 40
chDot == 46
chSlash == 47
chColon == 58
chBackslash == 92
chPipe == 124
chDEL == 127
chStar == 42
chQuestion == 63

strDoNothing == <<68, 111, 78, 111, 116, 104, 105, 110, 103>>
strNoTabs == <<78, 111, 84, 97, 98, 115>>
strNoLeadingSpaces == <<78, 111, 76, 101, 97, 100, 105, 110, 103, 83, 112, 97, 99, 101, 115>>
strTabsVsSpacesOnly == <<84, 97, 98, 115, 86, 115, 83, 112, 97, 99, 101, 115, 79, 110, 108, 121>>
strConsistentNewlines == <<67, 111, 110, 115, 105, 115, 116, 101, 110, 116, 78, 101, 119, 108, 105, 110, 101, 115>>
strConsistentIndentWidth == <<67, 111, 110, 115, 105, 115, 116, 101, 110, 116, 73, 110, 100, 101, 110, 116, 87, 105, 100, 116, 104>>
strBadNameSpace == <<66, 97, 100, 78, 97, 109, 101, 83, 112, 97, 99, 101>>
strBadClassName == <<66, 97, 100, 67, 108, 97, 115, 115, 78, 97, 109, 101>>
strNoMultiplePublicClasses == <<78, 111, 77, 117, 108, 116, 105, 112, 108, 101, 80, 117, 98, 108, 105, 99, 67, 108, 97, 115, 115, 101, 115>>
strWindowsNewlines == <<87, 105, 110, 100, 111, 119, 115, 78, 101, 119, 108, 105, 110, 101, 115>>
strLinuxNewlines == <<76, 105, 110, 117, 120, 78, 101, 119, 108, 105, 110, 101, 115>>
strOldMacNewlines == <<79, 108, 100, 77, 97, 99, 78, 101, 119, 108, 105, 110, 101, 115>>
strNeedSpaceAfterKeyword == <<78, 101, 101, 100, 83, 112, 97, 99, 101, 65, 102, 116, 101, 114, 75, 101, 121, 119, 111, 114, 100>>

\* ".cs"
strDotCs == <<46, 99, 115>>
\* "namespace "
strNamespace == <<110, 97, 109, 101, 115, 112, 97, 99, 101, 32>>
\* "class "
strClass == <<99, 108, 97, 115, 115, 32>>
\* "public class "
strPublicClass == <<112, 117, 98, 108, 105, 99, 32, 99, 108, 97, 115, 115, 32>>
\* "internal class "
strInternalClass == <<105, 110, 116, 101, 114, 110, 97, 108, 32, 99, 108, 97, 115, 115, 32>>

\* catch, for, foreach, if, lock, switch, using, while
csharpKeywordsWithSpacedParens ==
    << <<99, 97, 116, 99, 104>>,
       <<102, 111, 114>>,
       <<102, 111, 114, 101, 97, 99, 104>>,
       <<105, 102>>,
       <<108, 111, 99, 107>>,
       <<115, 119, 105, 116, 99, 104>>,
       <<117, 115, 105, 110, 103>>,
       <<119, 104, 105, 108, 101>> >>

flagTextFile == 1
flagBinaryFile == 2

\* The prefix length runRulesOnFiles passes to readFirstNChars.
classifyBytesCount == 50

---------------------------------------------------------------------------
(* Go's strings and path/filepath functions, as the code uses them. *)

Rep(c, n) == [i \in 1..n |-> c]

HasPrefix(s, p) == Len(s) >= Len(p) /\ SubSeq(s, 1, Len(p)) = p

HasSuffix(s, p) == Len(s) >= Len(p) /\ SubSeq(s, Len(s) - Len(p) + 1, Len(s)) = p

\* s[n:] with n counted from 0, as a Go slice expression.
From(s, n) == SubSeq(s, n + 1, Len(s))

\* strings.Index(s, c) for a one-byte c: 0-based, -1 when absent.
IndexByte(s, c) ==
    IF \E i \in 1..Len(s) : s[i] = c
    THEN (CHOOSE i \in 1..Len(s) : s[i] = c /\ \A j \in 1..(i - 1) : s[j] # c) - 1
    ELSE -1

\* strings.LastIndex(s, c) for a one-byte c: 0-based, -1 when absent.
LastIndexByte(s, c) ==
    IF \E i \in 1..Len(s) : s[i] = c
    THEN (CHOOSE i \in 1..Len(s) : s[i] = c /\ \A j \in (i + 1)..Len(s) : s[j] # c) - 1
    ELSE -1

ContainsByte(s, c) == \E i \in 1..Len(s) : s[i] = c

\* strings.Contains(s, sub)
Contains(s, sub) ==
    \E i \in 0..(Len(s) - Len(sub)) : SubSeq(s, i + 1, i + Len(sub)) = sub

RECURSIVE TrimLeft(_, _)
TrimLeft(s, cutset) ==
    IF s # <<>> /\ Head(s) \in cutset THEN TrimLeft(Tail(s), cutset) ELSE s

RECURSIVE TrimRight(_, _)
TrimRight(s, cutset) ==
    IF s # <<>> /\ s[Len(s)] \in cutset
    THEN TrimRight(SubSeq(s, 1, Len(s) - 1), cutset)
    ELSE s

\* strings.Trim(s, cutset)
Trim(s, cutset) == TrimRight(TrimLeft(s, cutset), cutset)

\* strings.Replace(s, old, new, -1) for a non-empty old.
RECURSIVE Replace(_, _, _)
Replace(s, old, new) ==
    IF Len(s) < Len(old) THEN s
    ELSE IF HasPrefix(s, old) THEN new \o Replace(From(s, Len(old)), old, new)
    ELSE <<Head(s)>> \o Replace(Tail(s), old, new)

\* strings.Split(s, sep) for a one-byte sep: always at least one piece.
RECURSIVE Split(_, _)
Split(s, c) ==
    LET i == IndexByte(s, c)
    IN  IF i < 0 THEN <<s>>
        ELSE <<SubSeq(s, 1, i)>> \o Split(From(s, i + 1), c)

RECURSIVE JoinWith(_, _)
JoinWith(parts, c) ==
    IF parts = <<>> THEN <<>>
    ELSE IF Len(parts) = 1 THEN parts[1]
    ELSE parts[1] \o <<c>> \o JoinWith(Tail(parts), c)

\* filepath.Ext: the suffix from the last dot of the last path element.
RECURSIVE ExtFrom(_, _)
ExtFrom(path, i) ==
    IF i < 1 \/ path[i] = chSlash THEN <<>>
    ELSE IF path[i] = chDot THEN SubSeq(path, i, Len(path))
    ELSE ExtFrom(path, i - 1)

Ext(path) == ExtFrom(path, Len(path))

\* filepath.Base: the last element, trailing separators removed.
Base(path) ==
    IF path = <<>> THEN <<chDot>>
    ELSE LET p == TrimRight(path, {chSlash})
             i == LastIndexByte(p, chSlash)
             b == IF i >= 0 THEN From(p, i + 1) ELSE p
         IN  IF b = <<>> THEN <<chSlash>> ELSE b

\* filepath.Clean on a slash-separated path: empty and "." elements dropped,
\* "name/.." pairs eliminated, ".." at the root dropped.
RECURSIVE CleanElements(_, _, _)
CleanElements(elems, out, rooted) ==
    IF elems = <<>> THEN out
    ELSE LET e == Head(elems)
             rest == Tail(elems)
         IN  IF e = <<>> \/ e = <<chDot>> THEN CleanElements(rest, out, rooted)
             ELSE IF e = <<chDot, chDot>>
             THEN IF out # <<>> /\ out[Len(out)] # <<chDot, chDot>>
                  THEN CleanElements(rest, SubSeq(out, 1, Len(out) - 1), rooted)
                  ELSE IF rooted THEN CleanElements(rest, out, rooted)
                  ELSE CleanElements(rest, Append(out, e), rooted)
             ELSE CleanElements(rest, Append(out, e), rooted)

Clean(path) ==
    LET rooted == HasPrefix(path, <<chSlash>>)
        body == JoinWith(CleanElements(Split(path, chSlash), <<>>, rooted), chSlash)
    IN  IF rooted THEN <<chSlash>> \o body
        ELSE IF body = <<>> THEN <<chDot>> ELSE body

\* The working directory of the process: "/w".
Cwd == <<47, 119>>

\* filepath.Abs: an absolute path is cleaned, a relative one joined to Cwd.
Abs(path) ==
    IF HasPrefix(path, <<chSlash>>) THEN Clean(path)
    ELSE Clean(Cwd \o <<chSlash>> \o path)

\* int & flag, for a flag that is a power of two.
BitAnd(n, flag) == ((n \div flag) % 2) * flag

---------------------------------------------------------------------------
(* Utilities. *)

\* "abc" -> lines; returnNonEmptyOnly drops the empty ones.
convertStringToLines(s, returnNonEmptyOnly) ==
    IF s = <<>> THEN <<>>
    ELSE LET s1 == Replace(s, <<chCR, chLF>>, <<chLF>>)
             s2 == Replace(s1, <<chCR>>, <<chLF>>)
             lines == Split(s2, chLF)
         IN  IF ~returnNonEmptyOnly THEN lines
             ELSE SelectSeq(lines, LAMBDA line : line # <<>>)

isControlCharacter(char) ==
    (char = chDEL) \/
    (((0 <= char) /\ (char <= 31)) /\ (char # chTab) /\ (char # chLF) /\ (char # chCR))

\* The loop ranges over runes; a byte above 127 never decodes to a rune
\* below 128, so the byte-wise test gives the same answer.
hasControlCharacters(line) ==
    \E i \in 1..Len(line) : isControlCharacter(line[i])

getCanonicalPath(path) == Clean(Abs(path))

RECURSIVE stringArrayContains(_, _)
stringArrayContains(array, s) ==
    IF array = <<>> THEN FALSE
    ELSE IF s = Head(array) THEN TRUE
    ELSE stringArrayContains(Tail(array), s)

\* A stringArrayReverse that leaves the array as it is.
stringArrayReverse_noOp(array) == array

\* stringArrayReverse, as the value the array holds afterwards.
stringArrayReverse(array) == [i \in 1..Len(array) |-> array[Len(array) + 1 - i]]

\* a < b for Go strings: byte-wise, a proper prefix first.
RECURSIVE Less(_, _)
Less(a, b) ==
    IF b = <<>> THEN FALSE
    ELSE IF a = <<>> THEN TRUE
    ELSE IF Head(a) # Head(b) THEN Head(a) < Head(b)
    ELSE Less(Tail(a), Tail(b))

\* sort.Strings on a list of distinct names.
RECURSIVE SortStrings(_)
SortStrings(names) ==
    IF names = {} THEN <<>>
    ELSE LET least == CHOOSE x \in names : \A y \in names \ {x} : Less(x, y)
         IN  <<least>> \o SortStrings(names \ {least})

---------------------------------------------------------------------------
(* The file system the run sees: canonical path -> content.  A path that is *)
(* not in the domain cannot be opened.                                      *)

\* "/w/A.cs": "public class B", a tab-indented line, a space-indented line,
\* then a long comment line; 63 bytes, no control character.
contentA ==
    <<112, 117, 98, 108, 105, 99, 32, 99, 108, 97, 115, 115, 32, 66, chLF>>
    \o <<chTab, 120, chLF>> \o <<chSpace, 121, chLF>> \o <<47, 47>> \o Rep(120, 40)

\* "/w/b.txt": two tab-indented lines and a long line; the only control
\* character (byte 1) is the 51st byte.
contentB ==
    <<chTab, 120, chLF, chTab, 121, chLF>> \o Rep(120, 44) \o <<1, chLF>>

\* "/w/s.cs": "class s" and a newline; 8 bytes, no control character.
contentS == <<99, 108, 97, 115, 115, 32, 115, chLF>>

\* "/w/img.bin": 53 bytes starting with bytes 0, 1, 2.
contentImg == <<0, 1, 2>> \o Rep(120, 50)

pathA == <<47, 119, 47, 65, 46, 99, 115>>
pathB == <<47, 119, 47, 98, 46, 116, 120, 116>>
pathS == <<47, 119, 47, 115, 46, 99, 115>>
pathImg == <<47, 119, 47, 105, 109, 103, 46, 98, 105, 110>>
\* "./b.txt", the same file named relative to the working directory
pathBRelative == <<46, 47, 98, 46, 116, 120, 116>>
\* "/w/gone.txt", a listed file that no longer exists
pathGone == <<47, 119, 47, 103, 111, 110, 101, 46, 116, 120, 116>>

Disk ==
    [p \in {pathA, pathB, pathS, pathImg} |->
        IF p = pathA THEN contentA
        ELSE IF p = pathB THEN contentB
        ELSE IF p = pathS THEN contentS
        ELSE contentImg]

\* os.Open / ioutil.ReadFile succeed.
canOpen(path) == path \in DOMAIN Disk

\* make([]byte, bytesCount); file.Read(bytes); string(bytes): the whole
\* buffer is returned, whatever Read filled of it.
readFirstNChars(path, bytesCount) ==
    LET content == Disk[path]
    IN  [i \in 1..bytesCount |-> IF i <= Len(content) THEN content[i] ELSE 0]

readFileString(path) == Disk[path]

---------------------------------------------------------------------------
(* Messages. *)

Err(text, names) == [text |-> text, names |-> names]

fileError(path, err) ==
    << [path |-> path, line |-> 0, err |-> err] >>

fileAndLineError(path, lineNum, err) ==
    << [path |-> path, line |-> lineNum, err |-> err] >>

---------------------------------------------------------------------------
(* Rule predicates.  args is a ruleCheckArgs record; lineNum counts from 0  *)
(* as the range loops of the source do.                                     *)

ruleCheckDoNothing(args) == <<>>

lineContainsTab(line) == ContainsByte(line, chTab)

RECURSIVE lineHasLeadingSpacesFrom(_, _, _)
lineHasLeadingSpacesFrom(line, k, hasSpace) ==
    IF k > Len(line) THEN hasSpace
    ELSE IF line[k] = chSpace THEN lineHasLeadingSpacesFrom(line, k + 1, TRUE)
    ELSE hasSpace

lineHasLeadingSpaces(line) ==
    IF line = <<>> THEN FALSE ELSE lineHasLeadingSpacesFrom(line, 1, FALSE)

\* isBad(line): the function value checkEachLine is given, called by name.
isBadLine(isBad, line) ==
    CASE isBad = "lineContainsTab" -> lineContainsTab(line)
      [] isBad = "lineHasLeadingSpaces" -> lineHasLeadingSpaces(line)

RECURSIVE checkEachLineFrom(_, _, _, _, _)
checkEachLineFrom(path, lines, errMsg, isBad, lineNum) ==
    IF lineNum >= Len(lines) THEN <<>>
    ELSE IF isBadLine(isBad, lines[lineNum + 1])
         THEN fileAndLineError(path, lineNum + 1, Err(errMsg, <<>>))
         ELSE checkEachLineFrom(path, lines, errMsg, isBad, lineNum + 1)

checkEachLine(path, lines, errMsg, isBad) ==
    checkEachLineFrom(path, lines, errMsg, isBad, 0)

ruleCheckNoTabs(args) ==
    checkEachLine(args.filePath, args.fileAsLines, "Tabs not allowed", "lineContainsTab")

ruleCheckNoLeadingSpaces(args) ==
    checkEachLine(args.filePath, args.fileAsLines, "Leading spaces not allowed",
                  "lineHasLeadingSpaces")

\* tabsVsSpacesLine without the break at the first rune that is neither a
\* space nor a tab.
RECURSIVE tabsVsSpacesLine_noBreak(_, _, _, _)
tabsVsSpacesLine_noBreak(line, k, hasTabIndent, hasSpaceIndent) ==
    IF k > Len(line)
    THEN [err |-> "", hasTabIndent |-> hasTabIndent, hasSpaceIndent |-> hasSpaceIndent]
    ELSE IF line[k] = chSpace
    THEN IF hasTabIndent
         THEN [err |-> "Found first space indent with prior tab indents",
               hasTabIndent |-> hasTabIndent, hasSpaceIndent |-> hasSpaceIndent]
         ELSE tabsVsSpacesLine_noBreak(line, k + 1, hasTabIndent, TRUE)
    ELSE IF line[k] = chTab
    THEN IF hasSpaceIndent
         THEN [err |-> "Found first tab indent with prior space indents",
               hasTabIndent |-> hasTabIndent, hasSpaceIndent |-> hasSpaceIndent]
         ELSE tabsVsSpacesLine_noBreak(line, k + 1, TRUE, hasSpaceIndent)
    ELSE tabsVsSpacesLine_noBreak(line, k + 1, hasTabIndent, hasSpaceIndent)

\* The inner loop of ruleCheckTabsVsSpacesOnly over one line, from rune k.
RECURSIVE tabsVsSpacesLine(_, _, _, _)
tabsVsSpacesLine(line, k, hasTabIndent, hasSpaceIndent) ==
    IF k > Len(line)
    THEN [err |-> "", hasTabIndent |-> hasTabIndent, hasSpaceIndent |-> hasSpaceIndent]
    ELSE IF line[k] = chSpace
    THEN IF hasTabIndent
         THEN [err |-> "Found first space indent with prior tab indents",
               hasTabIndent |-> hasTabIndent, hasSpaceIndent |-> hasSpaceIndent]
         ELSE tabsVsSpacesLine(line, k + 1, hasTabIndent, TRUE)
    ELSE IF line[k] = chTab
    THEN IF hasSpaceIndent
         THEN [err |-> "Found first tab indent with prior space indents",
               hasTabIndent |-> hasTabIndent, hasSpaceIndent |-> hasSpaceIndent]
         ELSE tabsVsSpacesLine(line, k + 1, TRUE, hasSpaceIndent)
    ELSE [err |-> "", hasTabIndent |-> hasTabIndent, hasSpaceIndent |-> hasSpaceIndent]

RECURSIVE tabsVsSpacesFrom(_, _, _, _)
tabsVsSpacesFrom(args, lineNum, hasTabIndent, hasSpaceIndent) ==
    IF lineNum >= Len(args.fileAsLines) THEN <<>>
    ELSE LET r == tabsVsSpacesLine(args.fileAsLines[lineNum + 1], 1,
                                   hasTabIndent, hasSpaceIndent)
         IN  IF r.err # ""
             THEN fileAndLineError(args.filePath, lineNum + 1, Err(r.err, <<>>))
             ELSE tabsVsSpacesFrom(args, lineNum + 1, r.hasTabIndent, r.hasSpaceIndent)

ruleCheckTabsVsSpacesOnly(args) == tabsVsSpacesFrom(args, 0, FALSE, FALSE)

\* A variant that looks for the two bare newlines in the text as it is.
ruleCheckConsistentNewlines_noRemoval(args) ==
    LET hasWindows == Contains(args.fileAsString, <<chCR, chLF>>)
        hasLinux == ContainsByte(args.fileAsString, chLF)
        hasOldMac == ContainsByte(args.fileAsString, chCR)
        count == (IF hasWindows THEN 1 ELSE 0) + (IF hasLinux THEN 1 ELSE 0)
                 + (IF hasOldMac THEN 1 ELSE 0)
    IN  IF count > 1
        THEN fileError(args.filePath, Err("File uses inconsistent newlines", <<>>))
        ELSE <<>>

ruleCheckConsistentNewlines(args) ==
    LET hasWindows == Contains(args.fileAsString, <<chCR, chLF>>)
        s == Replace(args.fileAsString, <<chCR, chLF>>, <<>>)
        hasLinux == ContainsByte(s, chLF)
        hasOldMac == ContainsByte(s, chCR)
        count == (IF hasWindows THEN 1 ELSE 0) + (IF hasLinux THEN 1 ELSE 0)
                 + (IF hasOldMac THEN 1 ELSE 0)
    IN  IF count > 1
        THEN fileError(args.filePath, Err("File uses inconsistent newlines", <<>>))
        ELSE <<>>

\* The number of spaces before the first rune that is not a space.
RECURSIVE numSpacesFrom(_, _)
numSpacesFrom(line, k) ==
    IF k > Len(line) \/ line[k] # chSpace THEN k - 1 ELSE numSpacesFrom(line, k + 1)

\* indentWidthResult that reports the first line breaking the 3-multiple.
indentWidthResult_reportsNon3(path, all3Spaces, all4Spaces, firstNon3SpaceLineNum, firstNon4SpaceLineNum) ==
    IF ~all3Spaces /\ ~all4Spaces
    THEN fileAndLineError(path, firstNon3SpaceLineNum,
                          Err("File has first non 3-space indent", <<>>))
    ELSE <<>>

\* The decision after the loop of ruleCheckConsistentIndentWidth.
indentWidthResult(path, all3Spaces, all4Spaces, firstNon3SpaceLineNum, firstNon4SpaceLineNum) ==
    IF ~all3Spaces /\ ~all4Spaces
    THEN IF ~all4Spaces
         THEN fileAndLineError(path, firstNon4SpaceLineNum,
                               Err("File has first non 4-space indent", <<>>))
         ELSE fileAndLineError(path, firstNon3SpaceLineNum,
                               Err("File has first non 3-space indent", <<>>))
    ELSE <<>>

RECURSIVE indentWidthFrom(_, _, _, _, _, _)
indentWidthFrom(args, lineNum, all3Spaces, all4Spaces, firstNon3SpaceLineNum, firstNon4SpaceLineNum) ==
    IF lineNum >= Len(args.fileAsLines)
    THEN indentWidthResult(args.filePath, all3Spaces, all4Spaces,
                           firstNon3SpaceLineNum, firstNon4SpaceLineNum)
    ELSE LET numSpaces == numSpacesFrom(args.fileAsLines[lineNum + 1], 1)
             break3 == all3Spaces /\ (numSpaces % 3) # 0
             break4 == all4Spaces /\ (numSpaces % 4) # 0
         IN  indentWidthFrom(args, lineNum + 1,
                             IF break3 THEN FALSE ELSE all3Spaces,
                             IF break4 THEN FALSE ELSE all4Spaces,
                             IF break3 THEN lineNum + 1 ELSE firstNon3SpaceLineNum,
                             IF break4 THEN lineNum + 1 ELSE firstNon4SpaceLineNum)

ruleCheckConsistentIndentWidth(args) == indentWidthFrom(args, 0, TRUE, TRUE, 0, 0)

getFilePathAsNameSpace(path) ==
    LET p == Replace(path, <<chBackslash>>, <<chSlash>>)
        base == LastIndexByte(p, chSlash)
        dir0 == SubSeq(p, 1, base)
        colon == IndexByte(dir0, chColon)
        dir1 == IF colon >= 0 THEN From(dir0, colon + 1) ELSE dir0
        dir2 == IF HasPrefix(dir1, <<chSlash>>) THEN From(dir1, 1) ELSE dir1
        ns == Replace(dir2, <<chSlash>>, <<chDot>>)
    IN  Replace(ns, <<chBackslash>>, <<chDot>>)

RECURSIVE badNameSpaceFrom(_, _, _)
badNameSpaceFrom(args, lineNum, pathAsNameSpace) ==
    IF lineNum >= Len(args.fileAsLines) THEN <<>>
    ELSE LET line == Trim(args.fileAsLines[lineNum + 1], {chSpace, chTab})
         IN  IF ~HasPrefix(line, strNamespace)
             THEN badNameSpaceFrom(args, lineNum + 1, pathAsNameSpace)
             ELSE LET namespace == From(line, Len(strNamespace))
                      pns == IF pathAsNameSpace = <<>>
                             THEN getFilePathAsNameSpace(args.filePath)
                             ELSE pathAsNameSpace
                  IN  IF ~HasSuffix(pns, <<chDot>> \o namespace)
                      THEN fileAndLineError(args.filePath, lineNum + 1,
                               Err("Namespace %s is not a suffix of %s", <<namespace, pns>>))
                      ELSE badNameSpaceFrom(args, lineNum + 1, pns)

ruleCheckBadNameSpace(args) == badNameSpaceFrom(args, 0, <<>>)

RECURSIVE badClassNameFrom(_, _, _)
badClassNameFrom(args, base, lineNum) ==
    IF lineNum >= Len(args.fileAsLines) THEN <<>>
    ELSE LET line == Trim(args.fileAsLines[lineNum + 1], {chSpace, chTab})
             isDecl == HasPrefix(line, strClass) \/ HasPrefix(line, strPublicClass)
                       \/ HasPrefix(line, strInternalClass)
             className ==
                 IF HasPrefix(line, strClass) THEN From(line, Len(strClass))
                 ELSE IF HasPrefix(line, strPublicClass) THEN From(line, Len(strPublicClass))
                 ELSE From(line, Len(strInternalClass))
         IN  IF ~isDecl THEN badClassNameFrom(args, base, lineNum + 1)
             ELSE IF className # base
             THEN fileAndLineError(args.filePath, lineNum + 1,
                      Err("Class name %s should be %s instead", <<className, base>>))
             ELSE badClassNameFrom(args, base, lineNum + 1)

\* ruleCheckBadClassName that looks at the first declaration line only.
ruleCheckBadClassName_firstDeclarationOnly(args) ==
    LET base0 == Base(args.filePath)
        base == SubSeq(base0, 1, Len(base0) - Len(strDotCs))
        isDecl(l) ==
            LET line == Trim(l, {chSpace, chTab})
            IN  HasPrefix(line, strClass) \/ HasPrefix(line, strPublicClass)
                \/ HasPrefix(line, strInternalClass)
        n == Len(args.fileAsLines)
    IN  IF \E i \in 1..n : isDecl(args.fileAsLines[i])
        THEN LET first == CHOOSE i \in 1..n :
                     isDecl(args.fileAsLines[i])
                     /\ \A j \in 1..(i - 1) : ~isDecl(args.fileAsLines[j])
                 r == badClassNameFrom(
                          [args EXCEPT !.fileAsLines = <<args.fileAsLines[first]>>], base, 0)
             IN  IF r = <<>> THEN <<>> ELSE <<[r[1] EXCEPT !.line = first]>>
        ELSE <<>>

ruleCheckBadClassName(args) ==
    LET base0 == Base(args.filePath)
        base == SubSeq(base0, 1, Len(base0) - Len(strDotCs))
    IN  badClassNameFrom(args, base, 0)

RECURSIVE noMultiplePublicClassesFrom(_, _, _)
noMultiplePublicClassesFrom(args, lineNum, count) ==
    IF lineNum >= Len(args.fileAsLines) THEN <<>>
    ELSE LET line == Trim(args.fileAsLines[lineNum + 1], {chSpace, chTab})
         IN  IF HasPrefix(line, strPublicClass)
             THEN IF count + 1 > 1
                  THEN fileAndLineError(args.filePath, lineNum + 1,
                           Err("Cannot have multiple public classes per file", <<>>))
                  ELSE noMultiplePublicClassesFrom(args, lineNum + 1, count + 1)
             ELSE noMultiplePublicClassesFrom(args, lineNum + 1, count)

ruleCheckNoMultiplePublicClasses(args) == noMultiplePublicClassesFrom(args, 0, 0)

ruleCheckWindowsNewlines(args) ==
    LET s == Replace(args.fileAsString, <<chCR, chLF>>, <<>>)
    IN  IF ContainsByte(s, chLF)
        THEN fileError(args.filePath, Err("File contains non-Windows (Linux) newlines", <<>>))
        ELSE IF ContainsByte(s, chCR)
        THEN fileError(args.filePath, Err("File contains non-Windows (Old Mac) newlines", <<>>))
        ELSE <<>>

ruleCheckLinuxNewlines(args) ==
    IF Contains(args.fileAsString, <<chCR, chLF>>)
    THEN fileError(args.filePath, Err("File contains non-Linux (Windows) newlines", <<>>))
    ELSE LET s == Replace(args.fileAsString, <<chCR, chLF>>, <<>>)
         IN  IF ContainsByte(s, chCR)
             THEN fileError(args.filePath, Err("File contains non-Linux (Old Mac) newlines", <<>>))
             ELSE <<>>

ruleCheckOldMacNewlines(args) ==
    IF Contains(args.fileAsString, <<chCR, chLF>>)
    THEN fileError(args.filePath, Err("File contains non-Old Mac (Windows) newlines", <<>>))
    ELSE LET s == Replace(args.fileAsString, <<chCR, chLF>>, <<>>)
         IN  IF ContainsByte(s, chLF)
             THEN fileError(args.filePath, Err("File contains non-Old Mac (Linux) newlines", <<>>))
             ELSE <<>>

\* The keyword loop of ruleCheckNeedSpaceAfterKeyword on one trimmed line.
RECURSIVE needSpaceKeywords(_, _, _, _)
needSpaceKeywords(args, lineNum, line, k) ==
    IF k > Len(csharpKeywordsWithSpacedParens) THEN <<>>
    ELSE LET keyword == csharpKeywordsWithSpacedParens[k]
         IN  (IF HasPrefix(line, keyword \o <<chParen>>)
              THEN fileAndLineError(args.filePath, lineNum + 1,
                       Err("Need space between keyword %s and open paren\n", <<keyword>>))
              ELSE <<>>)
             \o needSpaceKeywords(args, lineNum, line, k + 1)

RECURSIVE needSpaceFrom(_, _)
needSpaceFrom(args, lineNum) ==
    IF lineNum >= Len(args.fileAsLines) THEN <<>>
    ELSE needSpaceKeywords(args, lineNum,
                           Trim(args.fileAsLines[lineNum + 1], {chSpace, chTab}), 1)
         \o needSpaceFrom(args, lineNum + 1)

ruleCheckNeedSpaceAfterKeyword(args) == needSpaceFrom(args, 0)

\* rule.checkFunc(args): the function value a rule carries, called by name.
checkFunc(f, args) ==
    CASE f = "ruleCheckDoNothing" -> ruleCheckDoNothing(args)
      [] f = "ruleCheckNoTabs" -> ruleCheckNoTabs(args)
      [] f = "ruleCheckNoLeadingSpaces" -> ruleCheckNoLeadingSpaces(args)
      [] f = "ruleCheckTabsVsSpacesOnly" -> ruleCheckTabsVsSpacesOnly(args)
      [] f = "ruleCheckConsistentNewlines" -> ruleCheckConsistentNewlines(args)
      [] f = "ruleCheckConsistentIndentWidth" -> ruleCheckConsistentIndentWidth(args)
      [] f = "ruleCheckBadNameSpace" -> ruleCheckBadNameSpace(args)
      [] f = "ruleCheckBadClassName" -> ruleCheckBadClassName(args)
      [] f = "ruleCheckNoMultiplePublicClasses" -> ruleCheckNoMultiplePublicClasses(args)
      [] f = "ruleCheckWindowsNewlines" -> ruleCheckWindowsNewlines(args)
      [] f = "ruleCheckLinuxNewlines" -> ruleCheckLinuxNewlines(args)
      [] f = "ruleCheckOldMacNewlines" -> ruleCheckOldMacNewlines(args)
      [] f = "ruleCheckNeedSpaceAfterKeyword" -> ruleCheckNeedSpaceAfterKeyword(args)

---------------------------------------------------------------------------
(* The rule catalog and the config file. *)

addRule(ruleName, check, fileTypeFlags, fileExtensions) ==
    [name |-> ruleName,
     argument |-> <<>>,
     fileTypeFlags |-> fileTypeFlags,
     fileExtensions |-> IF fileExtensions # <<>> THEN Split(fileExtensions, chPipe) ELSE <<>>,
     checkFunc |-> check]

initRulesDefinitions ==
    LET defs ==
          { addRule(strDoNothing, "ruleCheckDoNothing", flagTextFile, <<>>),
            addRule(strNoTabs, "ruleCheckNoTabs", flagTextFile, <<>>),
            addRule(strNoLeadingSpaces, "ruleCheckNoLeadingSpaces", flagTextFile, <<>>),
            addRule(strTabsVsSpacesOnly, "ruleCheckTabsVsSpacesOnly", flagTextFile, <<>>),
            addRule(strConsistentNewlines, "ruleCheckConsistentNewlines", flagTextFile, <<>>),
            addRule(strConsistentIndentWidth, "ruleCheckConsistentIndentWidth", flagTextFile, <<>>),
            addRule(strBadNameSpace, "ruleCheckBadNameSpace", flagTextFile, strDotCs),
            addRule(strBadClassName, "ruleCheckBadClassName", flagTextFile, strDotCs),
            addRule(strNoMultiplePublicClasses, "ruleCheckNoMultiplePublicClasses", flagTextFile, strDotCs),
            addRule(strWindowsNewlines, "ruleCheckWindowsNewlines", flagTextFile, <<>>),
            addRule(strLinuxNewlines, "ruleCheckLinuxNewlines", flagTextFile, <<>>),
            addRule(strOldMacNewlines, "ruleCheckOldMacNewlines", flagTextFile, <<>>),
            addRule(strNeedSpaceAfterKeyword, "ruleCheckNeedSpaceAfterKeyword", flagTextFile, strDotCs) }
    IN  [n \in {d.name : d \in defs} |-> CHOOSE d \in defs : d.name = n]

rulesDefinitions == initRulesDefinitions

\* What getRuleMustExist leaves behind when it calls fatal: the process has
\* exited, and parseConfigRules never sees a rule.
unrecognizedRule(ruleName) ==
    [name |-> ruleName, argument |-> <<>>, fileTypeFlags |-> 0,
     fileExtensions |-> <<>>, checkFunc |-> "fatal"]

getRuleMustExist(ruleName) ==
    IF ruleName \in DOMAIN rulesDefinitions
    THEN rulesDefinitions[ruleName]
    ELSE unrecognizedRule(ruleName)

\* The composite literal sets four fields; fileTypeFlags keeps Go's zero value.
cloneRule(r) ==
    [name |-> r.name,
     argument |-> r.argument,
     fileTypeFlags |-> 0,
     fileExtensions |-> r.fileExtensions,
     checkFunc |-> r.checkFunc]

parseRule(line) ==
    LET spaceIndex == IndexByte(line, chSpace)
    IN  IF spaceIndex < 0
        THEN getRuleMustExist(line)
        ELSE LET name == SubSeq(line, 1, spaceIndex)
                 ruleDef == getRuleMustExist(name)
                 newRule == cloneRule(ruleDef)
             IN  [newRule EXCEPT !.argument = From(line, spaceIndex + 1)]

\* The loop of parseConfigRules: the rules of the lines that are neither
\* blank nor comments, in order.
RECURSIVE parseConfigLines(_)
parseConfigLines(lines) ==
    IF lines = <<>> THEN <<>>
    ELSE LET line == Trim(Head(lines), {chSpace, chTab})
         IN  IF line = <<>> \/ HasPrefix(line, <<chHash>>) \/ HasPrefix(line, <<chSlash, chSlash>>)
             THEN parseConfigLines(Tail(lines))
             ELSE <<parseRule(line)>> \o parseConfigLines(Tail(lines))

\* parseConfigRules: fatal on an unrecognized rule or on an empty rule list.
parseConfigRules(lines) ==
    LET parsed == parseConfigLines(lines)
    IN  IF \E i \in 1..Len(parsed) : parsed[i].checkFunc = "fatal"
        THEN [fatal |-> TRUE, rules |-> <<>>]
        ELSE IF Len(parsed) = 0
        THEN [fatal |-> TRUE, rules |-> <<>>]
        ELSE [fatal |-> FALSE, rules |-> parsed]

---------------------------------------------------------------------------
(* The inputs of a run. *)

SeqsUpTo(S, n) == UNION {[1..k -> S] : k \in 0..n}

\* Lines a config file may hold: two plain rules (one of them for .cs files
\* only), a rule with an argument ("NoTabs strict"), a comment ("# off") and
\* a name that is not in the catalog ("Bogus").
ConfigLinePool ==
    { strBadClassName,
      strTabsVsSpacesOnly,
      <<78, 111, 84, 97, 98, 115, 32, 115, 116, 114, 105, 99, 116>>,
      <<35, 32, 111, 102, 102>>,
      <<66, 111, 103, 117, 115>> }

\* The git state of a run that does not ask git.
NoRepo == [isRepo |-> FALSE, staged |-> {}, unstaged |-> {}, untracked |-> {}]

\* Paths the file source may list.
CandidatePool == {pathA, pathBRelative, pathS, pathImg, pathGone}

---------------------------------------------------------------------------
(* main and runRulesOnFiles. *)

Init ==
    /\ pc = "main"
    /\ configLines \in SeqsUpTo(ConfigLinePool, MaxConfigLines)
    /\ candidates \in SeqsUpTo(CandidatePool, MaxFiles)
    /\ repo = NoRepo
    /\ osArgs = <<>>
    /\ files2 = <<>>
    /\ rules = <<>>
    /\ files = <<>>
    /\ fi = 0
    /\ ri = 0
    /\ filePath = <<>>
    /\ fileExtension = <<>>
    /\ isBinary = FALSE
    /\ fileLoaded = FALSE
    /\ fileAsString = <<>>
    /\ fileAsLines = <<>>
    /\ msg = <<>>
    /\ console = <<>>
    /\ exitCode = -1
    /\ calls = <<>>
    /\ reads = <<>>

\* fatal(s): print and os.Exit(1).
Fatal ==
    /\ pc' = "exited"
    /\ exitCode' = 1

\* rules := loadConfigFile()
LoadConfigFile ==
    /\ pc = "main"
    /\ LET r == parseConfigRules(configLines)
       IN  IF r.fatal
           THEN Fatal /\ UNCHANGED rules
           ELSE /\ rules' = r.rules
                /\ pc' = "getListOfFiles"
                /\ UNCHANGED exitCode
    /\ UNCHANGED <<configLines, candidates, repo, osArgs, files2,
                   files, fi, ri, filePath, fileExtension,
                   isBinary, fileLoaded, fileAsString, fileAsLines, msg, console,
                   calls, reads>>

\* files := getListOfFiles(); main returns when there is none.
GetListOfFiles ==
    /\ pc = "getListOfFiles"
    /\ files' = candidates
    /\ IF Len(candidates) = 0
       THEN pc' = "exited" /\ exitCode' = 0 /\ UNCHANGED fi
       ELSE pc' = "file" /\ fi' = 1 /\ UNCHANGED exitCode
    /\ UNCHANGED <<configLines, candidates, repo, osArgs, files2,
                   rules, ri, filePath, fileExtension,
                   isBinary, fileLoaded, fileAsString, fileAsLines, msg, console,
                   calls, reads>>

\* The head of the outer loop body: extension, canonical path, classification.
BeginFile ==
    /\ pc = "file"
    /\ fi <= Len(files)
    /\ LET ext == Ext(files[fi])
           path == getCanonicalPath(files[fi])
       IN  /\ fileExtension' = ext
           /\ filePath' = path
           /\ fileLoaded' = FALSE
           /\ fileAsString' = <<>>
           /\ fileAsLines' = <<>>
           /\ IF ~canOpen(path)
              THEN Fatal /\ UNCHANGED <<isBinary, ri>>
              ELSE /\ isBinary' = hasControlCharacters(readFirstNChars(path, classifyBytesCount))
                   /\ ri' = 1
                   /\ pc' = "rule"
                   /\ UNCHANGED exitCode
    /\ UNCHANGED <<configLines, candidates, repo, osArgs, files2,
                   rules, files, fi, msg, console, calls, reads>>

\* skipByFileExtension without the test for an empty extension list.
skipByFileExtension_noEmptyTest(rule, ext) ==
    ~stringArrayContains(rule.fileExtensions, ext)

\* Skip by file extension.
skipByFileExtension(rule, ext) ==
    Len(rule.fileExtensions) # 0 /\ ~stringArrayContains(rule.fileExtensions, ext)

\* Skip binary files.
skipBinaryFile(rule, binary) ==
    binary /\ (BitAnd(rule.fileTypeFlags, flagBinaryFile) = 0)

\* Skip text files.
skipTextFile(rule, binary) ==
    ~binary /\ (BitAnd(rule.fileTypeFlags, flagTextFile) = 0)

\* lazyLoad that never sets fileLoaded.
lazyLoad_flagNeverSet(loaded, asString, asLines, path) ==
    LET s == readFileString(path)
    IN  [fileLoaded |-> FALSE, fileAsString |-> s,
         fileAsLines |-> convertStringToLines(s, FALSE), read |-> TRUE]

\* Lazy load files: what the three locals hold after the block, and whether
\* readFileString was called.
lazyLoad(loaded, asString, asLines, path) ==
    IF ~loaded
    THEN LET s == readFileString(path)
         IN  [fileLoaded |-> TRUE, fileAsString |-> s,
              fileAsLines |-> convertStringToLines(s, FALSE), read |-> TRUE]
    ELSE [fileLoaded |-> loaded, fileAsString |-> asString,
          fileAsLines |-> asLines, read |-> FALSE]

\* printIfAny that puts the newest message first.
printIfAny_newestFirst(out, m, f, r) ==
    IF m # <<>> THEN <<[file |-> f, rule |-> r, text |-> m]>> \o out ELSE out

\* Print error message if any.
printIfAny(out, m, f, r) ==
    IF m # <<>> THEN Append(out, [file |-> f, rule |-> r, text |-> m]) ELSE out

\* nextRuleIndex that leaves the inner loop after a message.
nextRuleIndex_breakOnMessage(m) == IF m # <<>> THEN Len(rules) + 1 ELSE ri + 1

\* The inner loop moves to the next rule whatever the message was.
nextRuleIndex(m) == ri + 1

\* One iteration of the inner loop.
RuleStep ==
    /\ pc = "rule"
    /\ ri <= Len(rules)
    /\ LET rule == rules[ri]
       IN  IF \/ skipByFileExtension(rule, fileExtension)
              \/ skipBinaryFile(rule, isBinary)
              \/ skipTextFile(rule, isBinary)
           THEN /\ ri' = ri + 1
                /\ UNCHANGED <<pc, exitCode, fileLoaded, fileAsString, fileAsLines,
                               msg, console, calls, reads>>
           ELSE IF ~fileLoaded /\ ~canOpen(filePath)
           THEN /\ Fatal
                /\ UNCHANGED <<ri, fileLoaded, fileAsString, fileAsLines,
                               msg, console, calls, reads>>
           ELSE LET ld == lazyLoad(fileLoaded, fileAsString, fileAsLines, filePath)
                    args == [filePath |-> filePath,
                             fileAsString |-> ld.fileAsString,
                             fileAsLines |-> ld.fileAsLines]
                    m == checkFunc(rule.checkFunc, args)
                IN  /\ fileLoaded' = ld.fileLoaded
                    /\ fileAsString' = ld.fileAsString
                    /\ fileAsLines' = ld.fileAsLines
                    /\ reads' = IF ld.read
                                THEN Append(reads, [file |-> fi, text |-> ld.fileAsString])
                                ELSE reads
                    /\ calls' = Append(calls, [file |-> fi, rule |-> ri, args |-> args])
                    /\ msg' = m
                    /\ console' = printIfAny(console, m, fi, ri)
                    /\ ri' = nextRuleIndex(m)
                    /\ UNCHANGED <<pc, exitCode>>
    /\ UNCHANGED <<configLines, candidates, repo, osArgs, files2,
                   rules, files, fi, filePath,
                   fileExtension, isBinary>>

\* The inner loop is over: on to the next file.
EndFile ==
    /\ pc = "rule"
    /\ ri > Len(rules)
    /\ fi' = fi + 1
    /\ pc' = "file"
    /\ UNCHANGED <<configLines, candidates, repo, osArgs, files2,
                   rules, files, ri, filePath, fileExtension,
                   isBinary, fileLoaded, fileAsString, fileAsLines, msg, console,
                   exitCode, calls, reads>>

\* The outer loop is over: runRulesOnFiles and main return.
ReturnFromMain ==
    /\ pc = "file"
    /\ fi > Len(files)
    /\ pc' = "exited"
    /\ exitCode' = 0
    /\ UNCHANGED <<configLines, candidates, repo, osArgs, files2,
                   rules, files, fi, ri, filePath,
                   fileExtension, isBinary, fileLoaded, fileAsString, fileAsLines,
                   msg, console, calls, reads>>

Next ==
    \/ LoadConfigFile
    \/ GetListOfFiles
    \/ BeginFile
    \/ RuleStep
    \/ EndFile
    \/ ReturnFromMain

Spec == Init /\ [][Next]_vars

---------------------------------------------------------------------------
(* Properties of runRulesOnFiles. *)

\* The pairs (position in files, position in rules) the loops have passed.
Processed(f, r) ==
    /\ f \in 1..Len(files)
    /\ r \in 1..Len(rules)
    /\ \/ f < fi
       \/ f = fi /\ pc = "rule" /\ r < ri

CallsOf(f, r) == {i \in DOMAIN calls : calls[i].file = f /\ calls[i].rule = r}

Invoked(f, r) == CallsOf(f, r) # {}

\* The classification the file at position f gets.
ClassifiedBinary(f) ==
    hasControlCharacters(readFirstNChars(getCanonicalPath(files[f]), classifyBytesCount))

\* The applicability flags of rule allow the content type.
TypeAllowed(rule, binary) ==
    IF binary
    THEN rule.fileTypeFlags \in {flagBinaryFile, flagTextFile + flagBinaryFile}
    ELSE rule.fileTypeFlags \in {flagTextFile, flagTextFile + flagBinaryFile}

\* The extension set of rule is empty or holds the extension of path.
ExtAllowed(rule, path) ==
    \/ rule.fileExtensions = <<>>
    \/ \E i \in 1..Len(rule.fileExtensions) : rule.fileExtensions[i] = Ext(path)

FiltersMatch(f, r) ==
    /\ TypeAllowed(rules[r], ClassifiedBinary(f))
    /\ ExtAllowed(rules[r], files[f])

\* C1: a rule's check predicate is invoked on a file if and only if the
\* file's content type, as classified, is one the rule instance's flags allow
\* and the rule's extension set is empty or contains the file's extension;
\* for every other pair it is never invoked.
C1_InvokedIffFiltersMatch ==
    /\ \A i \in DOMAIN calls : FiltersMatch(calls[i].file, calls[i].rule)
    /\ \A f \in 1..Len(files) : \A r \in 1..Len(rules) :
          Processed(f, r) => (Invoked(f, r) <=> FiltersMatch(f, r))

\* A finished run with an invoked pair, a pair skipped for its extension and
\* a pair skipped for its content type.
C1_Witness ==
    /\ pc = "exited"
    /\ exitCode = 0
    /\ \E f \in 1..Len(files) : \E r \in 1..Len(rules) : Invoked(f, r)
    /\ \E f \in 1..Len(files) : \E r \in 1..Len(rules) :
          Processed(f, r) /\ ~ExtAllowed(rules[r], files[f]) /\ ~Invoked(f, r)
    /\ \E f \in 1..Len(files) : \E r \in 1..Len(rules) :
          /\ Processed(f, r) /\ ExtAllowed(rules[r], files[f])
          /\ ~TypeAllowed(rules[r], ClassifiedBinary(f)) /\ ~Invoked(f, r)

ReadsOfFile(f) == {i \in DOMAIN reads : reads[i].file = f}

CallsOfFile(f) == {i \in DOMAIN calls : calls[i].file = f}

\* C2: during one run, the content of each entry of the file list is read at
\* most once, however many rules apply, and not at all when no rule applies;
\* every applicable rule of that file receives the same text (the one read)
\* and the same line sequence.
C2_LoadedAtMostOnce ==
    \A f \in 1..Len(files) :
        /\ Cardinality(ReadsOfFile(f)) <= 1
        /\ (CallsOfFile(f) = {}) => (ReadsOfFile(f) = {})
        /\ \A i \in CallsOfFile(f) :
              /\ \A k \in ReadsOfFile(f) : calls[i].args.fileAsString = reads[k].text
              /\ \A j \in CallsOfFile(f) :
                    /\ calls[i].args.fileAsString = calls[j].args.fileAsString
                    /\ calls[i].args.fileAsLines = calls[j].args.fileAsLines

\* One file has had two rules applied after a single read, and another file
\* has been passed without any read.
C2_Witness ==
    /\ \E f \in 1..Len(files) :
          Cardinality(CallsOfFile(f)) >= 2 /\ Cardinality(ReadsOfFile(f)) = 1
    /\ \E f \in 1..Len(files) : f < fi /\ ReadsOfFile(f) = {}

\* C3: diagnostics are printed with the file order as the outer loop and the
\* rule order as the inner loop: of any two printed diagnostics the earlier
\* belongs to an earlier file position or, for the same position, to an
\* earlier rule.
C3_DiagnosticsInLoopOrder ==
    \A i \in DOMAIN console : \A j \in DOMAIN console :
        i < j =>
            \/ console[i].file < console[j].file
            \/ console[i].file = console[j].file /\ console[i].rule < console[j].rule

\* Two diagnostics of one file and a diagnostic of a later file were printed.
C3_Witness ==
    /\ \E i \in DOMAIN console : \E j \in DOMAIN console :
          i < j /\ console[i].file = console[j].file
    /\ \E i \in DOMAIN console : \E j \in DOMAIN console :
          i < j /\ console[i].file # console[j].file

\* Every candidate file can be read.
AllReadable ==
    \A f \in 1..Len(candidates) : canOpen(getCanonicalPath(candidates[f]))

\* The config file was loaded without a fatal error.
ConfigLoaded == rules # <<>>

C4_Safety ==
    (ConfigLoaded /\ AllReadable) =>
        /\ exitCode # 1
        /\ \A f \in 1..Len(files) : \A r \in 1..Len(rules) :
              Cardinality(CallsOf(f, r)) <= 1
        /\ (pc = "exited") =>
              /\ exitCode = 0
              /\ \A f \in 1..Len(files) : \A r \in 1..Len(rules) :
                    FiltersMatch(f, r) => Cardinality(CallsOf(f, r)) = 1

\* A measure of the work left: the steps main can still take.
StepsLeft ==
    LET perFile == (IF pc = "main" THEN MaxConfigLines ELSE Len(rules)) + 2
    IN  CASE pc = "main" -> 3 + Len(candidates) * perFile
          [] pc = "getListOfFiles" -> 2 + Len(candidates) * perFile
          [] pc = "file" -> 1 + (Len(files) + 1 - fi) * perFile
          [] pc = "rule" -> 2 + (Len(files) - fi) * perFile + (Len(rules) + 1 - ri)
          [] OTHER -> 0

\* C4: a diagnostic never stops processing: when every candidate file is
\* readable, every (file, rule) pair whose filters match has its predicate
\* invoked exactly once and the run reaches normal completion (exit 0),
\* whatever diagnostics earlier rules or earlier files produced.  Reaching
\* completion is stated without fairness: the run never exits with 1, a run
\* that has not exited is at a loop position from which the code goes on,
\* and every step lowers StepsLeft, which is never negative.
C4_DiagnosticsNeverStop ==
    /\ []C4_Safety
    /\ []((ConfigLoaded /\ AllReadable /\ pc # "exited") =>
             (pc \in {"getListOfFiles", "file", "rule"} /\ StepsLeft > 0))
    /\ [][StepsLeft' < StepsLeft /\ StepsLeft' >= 0]_vars

\* A run that ended normally after a predicate was invoked on a later file
\* than one that had produced a diagnostic, and on a later rule of a file
\* than one that had produced a diagnostic.
C4_Witness ==
    /\ pc = "exited"
    /\ exitCode = 0
    /\ AllReadable
    /\ \E i \in DOMAIN console : \E j \in DOMAIN calls :
          console[i].file < calls[j].file
    /\ \E i \in DOMAIN console : \E j \in DOMAIN calls :
          console[i].file = calls[j].file /\ console[i].rule < calls[j].rule

\* A byte the classifier counts as a control character, as the claim lists
\* them.
ClaimedControlByte(b) == b = 127 \/ (b \in 0..31 /\ b \notin {9, 10, 13})

\* C5: the classifier declares a file binary if and only if one of its first
\* 50 bytes is 127 or in 0..31 other than 9, 10 and 13; a file shorter than
\* 50 bytes is classified on its actual bytes only.
C5_BinaryIffControlByteInPrefix ==
    (pc = "rule") =>
        LET content == Disk[filePath]
            n == IF Len(content) < 50 THEN Len(content) ELSE 50
        IN  isBinary <=> (\E i \in 1..n : ClaimedControlByte(content[i]))

\* C6: a rule instance parsed from 'Name argument' is the catalog entry of
\* Name plus the argument: name, check predicate, extension set and
\* applicability flags are those of the catalog entry, so it is applied to
\* the files the catalog entry is applied to.
C6_InstanceIsCatalogEntryPlusArgument ==
    \A r \in 1..Len(rules) :
        LET def == rulesDefinitions[rules[r].name]
        IN  /\ rules[r].name = def.name
            /\ rules[r].checkFunc = def.checkFunc
            /\ rules[r].fileExtensions = def.fileExtensions
            /\ rules[r].fileTypeFlags = def.fileTypeFlags
            /\ \A f \in 1..Len(files) :
                  Processed(f, r) =>
                      (Invoked(f, r) <=>
                          /\ TypeAllowed(def, ClassifiedBinary(f))
                          /\ ExtAllowed(def, files[f]))

---------------------------------------------------------------------------
(* The rule predicates on their own: one rule, one loaded file, one call.   *)

MaxLines == 3
MaxIndent == 9
MaxTextLen == 5

\* Lines for TabsVsSpacesOnly: x is byte 120.
TabsVsSpacesLines ==
    { <<>>,
      <<chSpace>>,
      <<chTab>>,
      <<chSpace, 120>>,
      <<chTab, 120>>,
      <<chSpace, chTab, 120>>,
      <<chTab, chSpace, 120>>,
      <<120, chSpace, chTab>>,
      <<chSpace, 120, chTab>>,
      <<chTab, 120, chSpace>> }

\* Lines for ConsistentIndentWidth: every indent up to MaxIndent before an x,
\* the empty line, a line of five spaces, and lines where a tab stops the
\* count.
IndentWidthLines ==
    {Rep(chSpace, n) \o <<120>> : n \in 0..MaxIndent}
    \cup { <<>>, Rep(chSpace, 5), <<chTab, chSpace, 120>>, <<chSpace, chSpace, chTab, 120>> }

\* Lines for BadClassName, for the files "/w/A.cs" and "/w/Ab.cs".
ClassNameLines ==
    { strClass \o <<65>>,
      strPublicClass \o <<65>>,
      strInternalClass \o <<65>>,
      strClass \o <<65, 98>>,
      <<chTab>> \o strPublicClass \o <<66, chSpace>>,
      strInternalClass \o <<66>>,
      <<99, 108, 97, 115, 115, 65>>,
      <<112, 114, 105, 118, 97, 116, 101, 32>> \o strClass \o <<65>>,
      strClass \o <<chSpace, 65>> }

ClassNamePaths == {pathA, <<47, 119, 47, 65, 98, 46, 99, 115>>}

\* Lines for BadNameSpace: "namespace b", "namespace a.b", the first with
\* blanks around it, "namespace x.b", "namespace a", "namespace .b",
\* "namespace" and "x".
NameSpaceLines ==
    { strNamespace \o <<98>>,
      strNamespace \o <<97, chDot, 98>>,
      <<chSpace>> \o strNamespace \o <<98, chTab>>,
      strNamespace \o <<120, chDot, 98>>,
      strNamespace \o <<97>>,
      strNamespace \o <<chDot, 98>>,
      <<110, 97, 109, 101, 115, 112, 97, 99, 101>>,
      <<120>> }

\* "/a/b/X.cs", "/b/X.cs", "/c:/a/b/X.cs" and "/X.cs".
NameSpacePaths ==
    { <<47, 97, 47, 98, 47, 88, 46, 99, 115>>,
      <<47, 98, 47, 88, 46, 99, 115>>,
      <<47, 99, 58, 47, 97, 47, 98, 47, 88, 46, 99, 115>>,
      <<47, 88, 46, 99, 115>> }

\* Texts for ConsistentNewlines: every string of CR, LF and x up to
\* MaxTextLen bytes, each as the one piece of an un-normalized file text.
NewlineTexts == SeqsUpTo({chCR, chLF, 120}, MaxTextLen)

RuleInputs ==
    [rule : {strConsistentNewlines}, path : {pathB},
     lines : {<<t>> : t \in NewlineTexts}]
    \cup
    [rule : {strTabsVsSpacesOnly}, path : {pathB},
     lines : SeqsUpTo(TabsVsSpacesLines, MaxLines)]
    \cup
    [rule : {strConsistentIndentWidth}, path : {pathB},
     lines : SeqsUpTo(IndentWidthLines, MaxLines)]
    \cup
    [rule : {strBadClassName}, path : ClassNamePaths,
     lines : SeqsUpTo(ClassNameLines, MaxLines)]
    \cup
    [rule : {strBadNameSpace}, path : NameSpacePaths,
     lines : SeqsUpTo(NameSpaceLines, MaxLines)]

\* The state runRulesOnFiles is in when it is about to call rule.checkFunc:
\* the file is loaded and its lines are those of its text.
RuleInit ==
    \E in \in RuleInputs :
        /\ pc = "check"
        /\ rules = <<rulesDefinitions[in.rule]>>
        /\ filePath = in.path
        /\ fileExtension = Ext(in.path)
        /\ fileAsString = JoinWith(in.lines, chLF)
        /\ fileAsLines = convertStringToLines(JoinWith(in.lines, chLF), FALSE)
        /\ fileLoaded = TRUE
        /\ isBinary = FALSE
        /\ configLines = <<>>
        /\ candidates = <<>>
        /\ repo = NoRepo
        /\ osArgs = <<>>
        /\ files2 = <<>>
        /\ files = <<>>
        /\ fi = 0
        /\ ri = 1
        /\ msg = <<>>
        /\ console = <<>>
        /\ exitCode = -1
        /\ calls = <<>>
        /\ reads = <<>>

\* msg := rule.checkFunc(ruleCheckArgs{...})
CheckRule ==
    /\ pc = "check"
    /\ msg' = checkFunc(rules[ri].checkFunc,
                        [filePath |-> filePath, fileAsString |-> fileAsString,
                         fileAsLines |-> fileAsLines])
    /\ pc' = "checked"
    /\ UNCHANGED <<configLines, candidates, repo, osArgs, files2,
                   rules, files, fi, ri, filePath,
                   fileExtension, isBinary, fileLoaded, fileAsString, fileAsLines,
                   console, exitCode, calls, reads>>

RuleSpec == RuleInit /\ [][CheckRule]_vars

---------------------------------------------------------------------------
(* Properties of the rule predicates. *)

Checked(ruleName) == pc = "checked" /\ rules[1].name = ruleName

LineNumbers == 1..Len(fileAsLines)

Min(S) == CHOOSE n \in S : \A m \in S : n <= m

\* The line with its leading and trailing spaces and tabs removed.
Trimmed(l) == Trim(fileAsLines[l], {chSpace, chTab})

ClassPrefixes == {strClass, strPublicClass, strInternalClass}

IsClassLine(l) == \E p \in ClassPrefixes : HasPrefix(Trimmed(l), p)

\* The text after the declaration prefix (no line begins with two of them).
DeclaredClass(l) ==
    LET p == CHOOSE q \in ClassPrefixes : HasPrefix(Trimmed(l), q)
    IN  From(Trimmed(l), Len(p))

\* The base name of the file without its three-character extension.
ExpectedClass ==
    LET name == From(filePath, LastIndexByte(filePath, chSlash) + 1)
    IN  SubSeq(name, 1, Len(name) - 3)

OffendingClassLines ==
    {l \in LineNumbers : IsClassLine(l) /\ DeclaredClass(l) # ExpectedClass}

\* C7 as claimed: BadClassName reports every offending declaration line
\* independently: one message, with the line's number, for each offending
\* line, and the empty diagnostic exactly when there is none.
C7_EveryOffendingLineReported ==
    Checked(strBadClassName) =>
        /\ Len(msg) = Cardinality(OffendingClassLines)
        /\ \A l \in OffendingClassLines : \E k \in 1..Len(msg) : msg[k].line = l

\* C7 as amended: BadClassName reports the first offending declaration line
\* only: the diagnostic is empty exactly when no line offends, and otherwise
\* it is the single message for the first offending line, with that line's
\* 1-based number, its declared name and the expected name.
C7_FirstOffendingLineReported ==
    Checked(strBadClassName) =>
        IF OffendingClassLines = {}
        THEN msg = <<>>
        ELSE LET first == Min(OffendingClassLines)
             IN  msg = << [path |-> filePath, line |-> first,
                           err |-> Err("Class name %s should be %s instead",
                                       <<DeclaredClass(first), ExpectedClass>>)] >>

\* A checked file whose first declaration line is right and which has two
\* offending lines after it.
C7_Witness ==
    /\ Checked(strBadClassName)
    /\ Cardinality(OffendingClassLines) >= 2
    /\ \E l \in LineNumbers : IsClassLine(l) /\ l < Min(OffendingClassLines)
    /\ msg # <<>>

IsNameSpaceLine(l) == HasPrefix(Trimmed(l), strNamespace)

DeclaredNameSpace(l) == From(Trimmed(l), Len(strNamespace))

\* declared is a dot-suffix of derived.
DotSuffix(declared, derived) ==
    derived = declared \/ HasSuffix(derived, <<chDot>> \o declared)

BadNameSpaceLines ==
    {l \in LineNumbers :
        IsNameSpaceLine(l)
        /\ ~DotSuffix(DeclaredNameSpace(l), getFilePathAsNameSpace(filePath))}

\* C8: BadNameSpace passes a file if and only if, on every line that begins
\* with 'namespace ' after trimming, the declared name is a dot-suffix of the
\* value derived from the path (equal to it, or preceded in it by a dot);
\* otherwise it fails with the number of the first line that is not.
C8_PassIffDotSuffix ==
    Checked(strBadNameSpace) =>
        IF BadNameSpaceLines = {}
        THEN msg = <<>>
        ELSE Len(msg) = 1 /\ msg[1].line = Min(BadNameSpaceLines)

\* The number of spaces before the first character that is not a space.
Indent(l) ==
    LET line == fileAsLines[l]
    IN  CHOOSE k \in 0..Len(line) :
            /\ \A i \in 1..k : line[i] = chSpace
            /\ k = Len(line) \/ line[k + 1] # chSpace

Non3Lines == {l \in LineNumbers : Indent(l) % 3 # 0}

Non4Lines == {l \in LineNumbers : Indent(l) % 4 # 0}

\* C9: ConsistentIndentWidth fails if and only if some line's indent is not a
\* multiple of 3 and some line's indent is not a multiple of 4; it then
\* reports the first line whose indent is not a multiple of 4, even when a
\* line breaking the multiple of 3 comes earlier.
C9_FailsIffBothBroken ==
    Checked(strConsistentIndentWidth) =>
        IF Non3Lines # {} /\ Non4Lines # {}
        THEN Len(msg) = 1 /\ msg[1].line = Min(Non4Lines)
        ELSE msg = <<>>

\* Indents 0, 4, 5: the 3-multiple breaks at line 2, line 3 is reported.
C9_Witness ==
    /\ Checked(strConsistentIndentWidth)
    /\ Len(fileAsLines) = 3
    /\ Indent(1) = 0 /\ Indent(2) = 4 /\ Indent(3) = 5
    /\ Min(Non3Lines) = 2
    /\ Len(msg) = 1 /\ msg[1].line = 3

\* The length of the leading run of spaces and tabs of a line.
LeadLen(line) ==
    CHOOSE k \in 0..Len(line) :
        /\ \A i \in 1..k : line[i] \in {chSpace, chTab}
        /\ k = Len(line) \/ line[k + 1] \notin {chSpace, chTab}

\* Character c occurs in the leading whitespace of one of the lines 1..l.
LeadsWith(c, l) ==
    \E n \in 1..l : \E i \in 1..LeadLen(fileAsLines[n]) : fileAsLines[n][i] = c

\* Both kinds occur in the leading whitespace of the lines 1..l.
MixedUpTo(l) == LeadsWith(chSpace, l) /\ LeadsWith(chTab, l)

\* The lines cut down to their leading whitespace.
LeadingOnly ==
    [l \in LineNumbers |-> SubSeq(fileAsLines[l], 1, LeadLen(fileAsLines[l]))]

\* C10: TabsVsSpacesOnly passes a file whose leading whitespace is of a
\* single kind on every line; otherwise it fails with the smallest line
\* number at which the leading whitespace so far stops being of a single
\* kind; what follows the first non-whitespace character of a line never
\* changes the result.
C10_FailsWhereKindsFirstMix ==
    Checked(strTabsVsSpacesOnly) =>
        /\ IF MixedUpTo(Len(fileAsLines))
           THEN Len(msg) = 1 /\ msg[1].line = Min({l \in LineNumbers : MixedUpTo(l)})
           ELSE msg = <<>>
        /\ msg = ruleCheckTabsVsSpacesOnly(
                     [filePath |-> filePath, fileAsString |-> fileAsString,
                      fileAsLines |-> LeadingOnly])

\* A tab-indented first line that has a space after its text, and a failure
\* at a later line that starts with a space.
C10_Witness ==
    /\ Checked(strTabsVsSpacesOnly)
    /\ Len(fileAsLines) >= 2
    /\ fileAsLines[1] = <<chTab, 120, chSpace>>
    /\ msg # <<>>
    /\ msg[1].line > 1
    /\ fileAsLines[msg[1].line][1] = chSpace

\* A CRLF pair starts at position i of the loaded text.
PairAt(i) == i < Len(fileAsString) /\ fileAsString[i] = chCR /\ fileAsString[i + 1] = chLF

\* The three kinds of newline, by position in the un-normalized text: a CRLF
\* pair, an LF that no pair holds, a CR that no pair holds.
HasCRLF == \E i \in 1..Len(fileAsString) : PairAt(i)

HasBareLF ==
    \E i \in 1..Len(fileAsString) :
        fileAsString[i] = chLF /\ ~(i > 1 /\ PairAt(i - 1))

HasBareCR ==
    \E i \in 1..Len(fileAsString) : fileAsString[i] = chCR /\ ~PairAt(i)

NewlineKinds ==
    (IF HasCRLF THEN 1 ELSE 0) + (IF HasBareLF THEN 1 ELSE 0)
    + (IF HasBareCR THEN 1 ELSE 0)

\* C11: ConsistentNewlines, on the un-normalized text, fails if and only if
\* at least two of the three kinds of newline are present (a CRLF pair, an LF
\* outside every pair, a CR outside every pair); the failure is the one
\* file-level message "File uses inconsistent newlines".
C11_FailsIffTwoNewlineKinds ==
    Checked(strConsistentNewlines) =>
        IF NewlineKinds >= 2
        THEN msg = fileError(filePath, Err("File uses inconsistent newlines", <<>>))
        ELSE msg = <<>>

\* "x\r\nx\n": a CRLF pair and a bare LF elsewhere, and the rule fails.
C11_Witness ==
    /\ Checked(strConsistentNewlines)
    /\ fileAsString = <<120, chCR, chLF, 120, chLF>>
    /\ HasCRLF /\ HasBareLF /\ ~HasBareCR
    /\ msg # <<>>

\* "\r\n\r\n": only CRLF pairs, and the rule passes.
C11_WitnessPass ==
    /\ Checked(strConsistentNewlines)
    /\ fileAsString = <<chCR, chLF, chCR, chLF>>
    /\ msg = <<>>

---------------------------------------------------------------------------
(* Repository mode: getListOfFilesFromGit.  The three git commands print    *)
(* the paths of a set, relative to the repository root, in ascending order, *)
(* one per line; the repository root is the working directory Cwd.          *)

MaxTracked == 2

\* A path below the repository root, as git prints it.
RelativeToRoot(path) == From(path, Len(Cwd) + 1)

\* "A.cs", "b.txt", "s.cs": files git tracks.  "img.bin": a file it does not.
TrackedFiles == <<RelativeToRoot(pathA), RelativeToRoot(pathB), RelativeToRoot(pathS)>>

UntrackedFiles == {RelativeToRoot(pathImg)}

\* Every state of the first MaxTracked tracked files (unchanged, staged,
\* changed in the working tree, or staged and changed again) with every set
\* of untracked files, and a directory that is in no repository.
Repos ==
    LET tracked == {TrackedFiles[i] : i \in 1..MaxTracked}
    IN  { [isRepo |-> TRUE,
           staged |-> {f \in tracked : st[f] \in {"staged", "both"}},
           unstaged |-> {f \in tracked : st[f] \in {"unstaged", "both"}},
           untracked |-> u] :
             st \in [tracked -> {"clean", "staged", "unstaged", "both"}],
             u \in SUBSET UntrackedFiles }
        \cup {NoRepo}

\* The text a git listing command prints for a set of paths.
RECURSIVE Listing(_)
Listing(names) ==
    IF names = <<>> THEN <<>>
    ELSE Head(names) \o <<chLF>> \o Listing(Tail(names))

\* execAndGetOutput for the three commands of getListOfFilesFromGit.
execAndGetOutput(command) ==
    CASE command = "diff --name-only --cached" -> Listing(SortStrings(repo.staged))
      [] command = "diff --name-only" -> Listing(SortStrings(repo.unstaged))
      [] command = "ls-files --others --exclude-standard" ->
             Listing(SortStrings(repo.untracked))

getListOfFilesFromGit ==
    LET diff1 == execAndGetOutput("diff --name-only --cached")
        diff2 == execAndGetOutput("diff --name-only")
        diff3 == execAndGetOutput("ls-files --others --exclude-standard")
        array1 == convertStringToLines(diff1, TRUE)
        array2 == convertStringToLines(diff2, TRUE)
        array3 == convertStringToLines(diff3, TRUE)
    IN  (array1 \o array2) \o array3

\* Config files of the repository-mode runs.
RepoConfigs == { <<strTabsVsSpacesOnly>>, <<strBadClassName, strTabsVsSpacesOnly>> }

RepoInit ==
    /\ pc = "main"
    /\ configLines \in RepoConfigs
    /\ candidates = <<>>
    /\ repo \in Repos
    /\ osArgs = <<>>
    /\ files2 = <<>>
    /\ rules = <<>>
    /\ files = <<>>
    /\ fi = 0
    /\ ri = 0
    /\ filePath = <<>>
    /\ fileExtension = <<>>
    /\ isBinary = FALSE
    /\ fileLoaded = FALSE
    /\ fileAsString = <<>>
    /\ fileAsLines = <<>>
    /\ msg = <<>>
    /\ console = <<>>
    /\ exitCode = -1
    /\ calls = <<>>
    /\ reads = <<>>

\* files := getListOfFiles() with no argument: gotoGitRepoRootDir is fatal
\* outside a repository; main returns when the list is empty.
GetListOfFilesFromGit ==
    /\ pc = "getListOfFiles"
    /\ Len(osArgs) = 0
    /\ IF ~repo.isRepo
       THEN Fatal /\ UNCHANGED <<files, fi>>
       ELSE /\ files' = getListOfFilesFromGit
            /\ IF Len(getListOfFilesFromGit) = 0
               THEN pc' = "exited" /\ exitCode' = 0 /\ UNCHANGED fi
               ELSE pc' = "file" /\ fi' = 1 /\ UNCHANGED exitCode
    /\ UNCHANGED <<configLines, candidates, repo, osArgs, files2,
                   rules, ri, filePath, fileExtension,
                   isBinary, fileLoaded, fileAsString, fileAsLines, msg, console,
                   calls, reads>>

RepoNext ==
    \/ LoadConfigFile
    \/ GetListOfFilesFromGit
    \/ BeginFile
    \/ RuleStep
    \/ EndFile
    \/ ReturnFromMain

RepoSpec == RepoInit /\ [][RepoNext]_vars

\* The list has been built.
Listed == pc \in {"file", "rule"} \/ (pc = "exited" /\ exitCode = 0)

RepoPaths == (repo.staged \cup repo.unstaged) \cup repo.untracked

Positions(path) == {i \in 1..Len(files) : files[i] = path}

\* The calls of rule r on the file named path.
Evaluations(path, r) ==
    {c \in DOMAIN calls : files[calls[c].file] = path /\ calls[c].rule = r}

\* C12: in repository mode the candidate list is the union of the three
\* path sets git returns: every path of a set is in the list, no path is in
\* the list more than once, and so no rule is evaluated more than once on a
\* file that is both staged and changed again in the working tree.
C12_ListIsUnionWithoutRepeats ==
    (repo.isRepo /\ Listed) =>
        /\ \A path \in RepoPaths : Positions(path) # {}
        /\ \A i \in 1..Len(files) : files[i] \in RepoPaths
        /\ \A path \in RepoPaths : Cardinality(Positions(path)) <= 1
        /\ \A path \in RepoPaths : \A r \in 1..Len(rules) :
               Cardinality(Evaluations(path, r)) <= 1

\* What the code does keep of C12: the list holds the paths of the three
\* sets and no other, the staged ones first, then the unstaged ones, then
\* the untracked ones, a path once for every set it is in.
C12_ListIsConcatenation ==
    (repo.isRepo /\ Listed) =>
        /\ \A path \in RepoPaths : Positions(path) # {}
        /\ \A i \in 1..Len(files) : files[i] \in RepoPaths
        /\ \A path \in RepoPaths :
               Cardinality(Positions(path)) =
                   Cardinality({S \in {"staged", "unstaged", "untracked"} :
                                   path \in repo[S]})

\* "A.cs" is staged and changed again, and the run has evaluated the first
\* rule on it twice.
C12_EvaluatedTwice ==
    /\ pc = "exited" /\ exitCode = 0
    /\ RelativeToRoot(pathA) \in repo.staged \cap repo.unstaged
    /\ Cardinality(Evaluations(RelativeToRoot(pathA), 1)) = 2

---------------------------------------------------------------------------
(* Explicit mode: getListOfFilesFromArguments.  The directory tree below    *)
(* the working directory Cwd ("/w"):                                         *)
(*     /w          .git/  A.cs  b.txt  d/  img.bin  s.cs                     *)
(*     /w/.git     HEAD                                                      *)
(*     /w/d        .git/  a.txt  e/  z.txt                                   *)
(*     /w/d/.git   config                                                    *)
(*     /w/d/e      k.txt  m/                                                 *)
(*     /w/d/e/m    (empty)                                                   *)

MaxArgs == 2

RegularFiles ==
    DOMAIN Disk
    \cup { <<47, 119, 47, 46, 103, 105, 116, 47, 72, 69, 65, 68>>,
           <<47, 119, 47, 100, 47, 46, 103, 105, 116, 47, 99, 111, 110, 102, 105, 103>>,
           <<47, 119, 47, 100, 47, 97, 46, 116, 120, 116>>,
           <<47, 119, 47, 100, 47, 101, 47, 107, 46, 116, 120, 116>>,
           <<47, 119, 47, 100, 47, 122, 46, 116, 120, 116>> }

Directories ==
    { Cwd,
      <<47, 119, 47, 46, 103, 105, 116>>,
      <<47, 119, 47, 100>>,
      <<47, 119, 47, 100, 47, 46, 103, 105, 116>>,
      <<47, 119, 47, 100, 47, 101>>,
      <<47, 119, 47, 100, 47, 101, 47, 109>> }

\* ".git"
strDotGit == <<46, 103, 105, 116>>

\* os.Stat(f), by what the code asks of it: an error, a regular file, or
\* something else, which in this tree is a directory.
Stat(f) ==
    LET p == Abs(f)
    IN  IF p \in RegularFiles THEN "regular"
        ELSE IF p \in Directories THEN "directory"
        ELSE "error"

\* filePtr.Readdirnames(-1): the names of the entries of a directory.
Readdirnames(f) ==
    LET p == Abs(f) \o <<chSlash>>
    IN  { From(q, Len(p)) : q \in { n \in RegularFiles \cup Directories :
                                       /\ HasPrefix(n, p)
                                       /\ ~ContainsByte(From(n, Len(p)), chSlash) } }

\* path.Join(f, fn) and filepath.Join(dir, name)
Join(f, fn) == Clean(f \o <<chSlash>> \o fn)

\* The entries of a directory as the inner loop appends them: sorted, each
\* joined to the directory's path.
Entries(f) ==
    LET fileNames == SortStrings(Readdirnames(f))
    IN  [i \in 1..Len(fileNames) |-> Join(f, fileNames[i])]

\* filepath.Match for a pattern of literal bytes, "*" and "?".
RECURSIVE Match(_, _)
Match(pattern, name) ==
    IF pattern = <<>> THEN name = <<>>
    ELSE IF Head(pattern) = chStar
    THEN \/ Match(Tail(pattern), name)
         \/ name # <<>> /\ Head(name) # chSlash /\ Match(pattern, Tail(name))
    ELSE IF Head(pattern) = chQuestion
    THEN name # <<>> /\ Head(name) # chSlash /\ Match(Tail(pattern), Tail(name))
    ELSE name # <<>> /\ Head(name) = Head(pattern) /\ Match(Tail(pattern), Tail(name))

\* filepath.Glob for a pattern whose directory part has no metacharacter:
\* the matching entries of that directory, in ascending order.
Glob(pattern) ==
    LET i == LastIndexByte(pattern, chSlash)
        dir == IF i < 0 THEN <<chDot>>
               ELSE IF i = 0 THEN <<chSlash>> ELSE SubSeq(pattern, 1, i)
        file == From(pattern, i + 1)
    IN  IF Stat(dir) # "directory" THEN <<>>
        ELSE LET names == SortStrings({n \in Readdirnames(dir) : Match(file, n)})
             IN  [k \in 1..Len(names) |-> Join(dir, names[k])]

\* The first loop of getListOfFilesFromArguments: every argument, a pattern
\* replaced by its matches.
RECURSIVE addArguments(_)
addArguments(args) ==
    IF args = <<>> THEN <<>>
    ELSE LET pattern == Head(args)
         IN  (IF ContainsByte(pattern, chQuestion) \/ ContainsByte(pattern, chStar)
              THEN Glob(pattern)
              ELSE <<pattern>>) \o addArguments(Tail(args))

\* Arguments of a run: ".", "d", "/w/d", "d/e", "d/.git", "/w/A.cs",
\* "/w/gone.txt" (no such file), "*.cs" and "d/*".
ArgumentPool ==
    { <<chDot>>,
      <<100>>,
      <<47, 119, 47, 100>>,
      <<100, 47, 101>>,
      <<100, 47, 46, 103, 105, 116>>,
      pathA,
      pathGone,
      <<42, 46, 99, 115>>,
      <<100, 47, 42>> }

\* main has loaded the config file and calls getListOfFiles with arguments.
ArgumentsInit ==
    /\ pc = "getListOfFiles"
    /\ configLines = <<strTabsVsSpacesOnly>>
    /\ candidates = <<>>
    /\ repo = NoRepo
    /\ osArgs \in SeqsUpTo(ArgumentPool, MaxArgs) \ {<<>>}
    /\ files2 = <<>>
    /\ rules = parseConfigRules(<<strTabsVsSpacesOnly>>).rules
    /\ files = <<>>
    /\ fi = 0
    /\ ri = 0
    /\ filePath = <<>>
    /\ fileExtension = <<>>
    /\ isBinary = FALSE
    /\ fileLoaded = FALSE
    /\ fileAsString = <<>>
    /\ fileAsLines = <<>>
    /\ msg = <<>>
    /\ console = <<>>
    /\ exitCode = -1
    /\ calls = <<>>
    /\ reads = <<>>

\* getListOfFiles with arguments: the first loop.  While the function runs,
\* files is its local list of the same name.
AddArguments ==
    /\ pc = "getListOfFiles"
    /\ Len(osArgs) > 0
    /\ files' = addArguments(osArgs)
    /\ files2' = <<>>
    /\ pc' = "expand"
    /\ UNCHANGED <<configLines, candidates, repo, osArgs, rules, fi, ri, filePath,
                   fileExtension, isBinary, fileLoaded, fileAsString, fileAsLines,
                   msg, console, exitCode, calls, reads>>

\* One iteration of the second loop: the last element is taken off files; a
\* regular file goes to files2, the entries of a directory not named .git
\* go to the end of files, anything else is dropped.
ExpandStep ==
    /\ pc = "expand"
    /\ Len(files) > 0
    /\ LET f == files[Len(files)]
           rest == SubSeq(files, 1, Len(files) - 1)
       IN  IF Stat(f) = "error"
           THEN files' = rest /\ UNCHANGED files2
           ELSE IF Stat(f) = "regular"
           THEN files' = rest /\ files2' = Append(files2, f)
           ELSE IF Base(f) = strDotGit
           THEN files' = rest /\ UNCHANGED files2
           ELSE files' = rest \o Entries(f) /\ UNCHANGED files2
    /\ UNCHANGED <<pc, configLines, candidates, repo, osArgs, rules, fi, ri, filePath,
                   fileExtension, isBinary, fileLoaded, fileAsString, fileAsLines,
                   msg, console, exitCode, calls, reads>>

\* The second loop is over: files2 is reversed in place and returned to
\* main, which returns when the list is empty.
ReturnFiles ==
    /\ pc = "expand"
    /\ Len(files) = 0
    /\ files2' = stringArrayReverse(files2)
    /\ files' = files2'
    /\ IF Len(files2) = 0
       THEN pc' = "exited" /\ exitCode' = 0 /\ UNCHANGED fi
       ELSE pc' = "file" /\ fi' = 1 /\ UNCHANGED exitCode
    /\ UNCHANGED <<configLines, candidates, repo, osArgs, rules, ri, filePath,
                   fileExtension, isBinary, fileLoaded, fileAsString, fileAsLines,
                   msg, console, calls, reads>>

ArgumentsNext ==
    \/ AddArguments
    \/ ExpandStep
    \/ ReturnFiles

ArgumentsSpec == ArgumentsInit /\ [][ArgumentsNext]_vars

---------------------------------------------------------------------------
(* Properties of getListOfFilesFromArguments. *)

\* getListOfFilesFromArguments has returned.
Returned == pc \in {"file", "exited"}

\* The paths the arguments name, a pattern standing for its matches.
Named == addArguments(osArgs)

\* The list a depth-first walk gives: a regular file is itself, a directory
\* not named .git is the walks of its entries in ascending name order, each
\* in the place of its entry.
RECURSIVE Walk(_), WalkAll(_)
Walk(f) ==
    IF Stat(f) = "regular" THEN <<f>>
    ELSE IF Stat(f) = "directory" /\ Base(Abs(f)) # strDotGit THEN WalkAll(Entries(f))
    ELSE <<>>

WalkAll(list) ==
    IF list = <<>> THEN <<>> ELSE Walk(Head(list)) \o WalkAll(Tail(list))

\* The regular file q is inside the directory named a, at any depth, with
\* no directory named .git on the way from a down to q.
ContainedIn(a, q) ==
    /\ Abs(a) \in Directories
    /\ q \in RegularFiles
    /\ HasPrefix(q, Abs(a) \o <<chSlash>>)
    /\ Base(Abs(a)) # strDotGit
    /\ LET below == Split(From(q, Len(Abs(a)) + 1), chSlash)
       IN  \A k \in 1..(Len(below) - 1) : below[k] # strDotGit

\* The regular files the arguments name or hold.
NamedOrContained ==
    {q \in RegularFiles : \E k \in 1..Len(Named) :
        Abs(Named[k]) = q \/ ContainedIn(Named[k], q)}

\* The iterations the second loop has yet to make for a list.
RECURSIVE Work(_), WorkAll(_)
Work(f) ==
    1 + (IF Stat(f) = "directory" /\ Base(f) # strDotGit THEN WorkAll(Entries(f)) ELSE 0)

WorkAll(list) ==
    IF list = <<>> THEN 0 ELSE Work(Head(list)) + WorkAll(Tail(list))

\* Every path the second loop can hold for an argument of the pool.
RECURSIVE Below(_)
Below(f) ==
    {f} \cup (IF Stat(f) = "directory" /\ Base(f) # strDotGit
              THEN UNION {Below(Entries(f)[i]) : i \in 1..Len(Entries(f))}
              ELSE {})

\* Work, tabulated for those paths, and for each argument the work of the
\* paths it names.
NamedByPool ==
    UNION {{addArguments(<<a>>)[i] : i \in 1..Len(addArguments(<<a>>))} : a \in ArgumentPool}

WorkOfPath == [f \in UNION {Below(a) : a \in NamedByPool} |-> Work(f)]

WorkOfArgument == [a \in ArgumentPool |-> WorkAll(addArguments(<<a>>))]

RECURSIVE Sum(_, _)
Sum(table, list) ==
    IF list = <<>> THEN 0 ELSE table[Head(list)] + Sum(table, Tail(list))

\* The steps getListOfFilesFromArguments has yet to make.
Remaining ==
    CASE pc = "getListOfFiles" -> 2 + Sum(WorkOfArgument, osArgs)
      [] pc = "expand" -> 1 + Sum(WorkOfPath, files)
      [] OTHER -> 0

C13_ListIsWalk ==
    Returned =>
        /\ files = WalkAll(Named)
        /\ \A i \in 1..Len(files) : Stat(files[i]) = "regular"
        /\ {Abs(files[i]) : i \in 1..Len(files)} = NamedOrContained

\* C13: in explicit mode getListOfFilesFromArguments terminates (every step
\* lowers the count of the steps left, which is never negative) and returns
\* exactly the regular files the arguments name or hold at any depth, never
\* going into a directory named .git; the files of an earlier argument come
\* before those of a later one, and the entries of a directory come in
\* ascending name order, a subdirectory's files in the place of its entry.
C13_TerminatesWithTheWalk ==
    /\ []C13_ListIsWalk
    /\ [](Remaining >= 0 /\ (~Returned => Remaining > 0))
    /\ [][Remaining' < Remaining]_vars

\* Arguments "d" and "/w/A.cs": the files of d in order, e's file in e's
\* place, nothing of d/.git, then A.cs.
C13_Witness ==
    /\ pc = "file"
    /\ osArgs = << <<100>>, pathA >>
    /\ files = << <<100, 47, 97, 46, 116, 120, 116>>,
                  <<100, 47, 101, 47, 107, 46, 116, 120, 116>>,
                  <<100, 47, 122, 46, 116, 120, 116>>,
                  pathA >>

===========================================================================
